---- MODULE Spec2Model ----
(***************************************************************************)
(* FHIR Django models: validation (Model.clean) and serialization          *)
(* (the convert functions) of one model instance.                          *)
(*                                                                         *)
(* obj is the model instance an operation works on: a record of its field  *)
(* values, its primary key (unset until the first save) and the rows its   *)
(* relation managers yield.  ret is what the latest clean()/convert call   *)
(* on the instance returned or raised; an assignment, a save or a change   *)
(* of a relation happens after that call and leaves no outcome behind.     *)
(* db is the database: the rows of the tables, each with its primary key   *)
(* and the primary keys its ForeignKey columns hold.                       *)
(*                                                                         *)
(* Spec follows one instance through construction, save, clean and         *)
(* conversion; SpecStore follows the rows of the database through create,  *)
(* delete and the read endpoint.                                           *)
(***************************************************************************)
EXTENDS Integers, Sequences, FiniteSets, TLC

VARIABLES obj, ret, db

vars == <<obj, ret, db>>

(***************************************************************************)
(* Python values.  None is the empty tuple and a present value v is <<v>>, *)
(* so that `is not None` and truthiness stay two different tests.          *)
(***************************************************************************)
None == <<>>
Some(v) == <<v>>

\* bool(s) of an Optional[str]
TruthyStr(x) == x # None /\ x[1] # ""
\* bool(x) of a model instance, a datetime, a time: None is the only falsy one
TruthyRef(x) == x # None
\* QuerySet.exists()
Exists(rows) == Len(rows) > 0

\* clean() returned without raising
OK == "ok"

(***************************************************************************)
(* Bounds of the explored inputs.                                          *)
(***************************************************************************)
\* how many optional fields / relations of one instance are populated at once
MaxPopulated == 2
\* how many rows one relation holds
MaxRelated == 2

(***************************************************************************)
(* Input values of the fields.                                             *)
(***************************************************************************)
Opt(S) == {None} \cup {Some(s) : s \in S}

\* the rows of a relation over candidates S, in query order, no row twice
Rows(S) ==
    {s \in UNION {[1..n -> S] : n \in 0..MaxRelated} :
        \A i, j \in DOMAIN s : s[i] = s[j] => i = j}

\* datetimes as day numbers: 2025-01-05 and 2025-01-10
DateTimes == Opt({5, 10})
\* one datetime, where the field is compared with nothing
DateTime == Opt({5})
Bools == Opt({FALSE, TRUE})
Ints == Opt({0, 42})
Strs == Opt({"", "Normal"})
FhirIds == Opt({"", "id-1"})
Urls == Opt({"", "http://example.org/rules"})
\* a foreign key to a row of table t
FK(t) == Opt({t})

\* components.MetaElement as DomainResource.clean reads it
MetaElements ==
    { [versionId |-> None,     lastUpdated |-> None,    security |-> <<>>],
      [versionId |-> Some(""), lastUpdated |-> None,    security |-> <<>>],
      [versionId |-> Some("1"), lastUpdated |-> None,   security |-> <<>>],
      [versionId |-> None,     lastUpdated |-> Some(5), security |-> <<>>],
      [versionId |-> None,     lastUpdated |-> None,    security |-> <<"label-1">>],
      [versionId |-> Some("1"), lastUpdated |-> None,   security |-> <<"label-1">>] }

(***************************************************************************)
(* Fields of the models: name |-> input values.  Every field listed is     *)
(* optional and a new instance holds None (an empty relation) in it.       *)
(***************************************************************************)
AbstractExtensionFields ==
    [ value_string   |-> Strs,
      value_boolean  |-> Bools,
      value_integer  |-> Ints,
      value_decimal  |-> Ints,
      value_datetime |-> DateTime,
      value_period   |-> FK("Period") ]

ElementFields ==
    [ fhir_id   |-> FhirIds,
      \* rows of components.Extension whose content_object is this instance
      extension |-> Rows({"ext-1"}) ]

ResourceFields ==
    [ fhir_id       |-> FhirIds,
      meta          |-> Opt(MetaElements),
      implicitRules |-> Urls ]

DomainResourceFields ==
    ResourceFields @@
    [ container |-> FK("Patient/1"),
      \* rows whose container is this instance
      contained |-> Rows({"res-2"}),
      \* rows of components.Extension whose content_object is this instance
      extension |-> Rows({"ext-1"}) ]

\* BackboneElement.modifierExtension is a JSONField: null or a JSON list
BackboneElementFields ==
    ElementFields @@ [ modifierExtension |-> Opt({<<"modifier-ext-1">>}) ]

ValueFields ==
    [ valueQuantity        |-> FK("Quantity"),
      valueCodeableConcept |-> FK("CodeableConcept"),
      valueString          |-> Strs,
      valueBoolean         |-> Bools,
      valueInteger         |-> Ints,
      valueRange           |-> FK("Range"),
      valuePeriod          |-> FK("Period"),
      valueDateTime        |-> DateTime,
      valueTime            |-> Opt({8}) ]

\* rows of ObservationReferenceRange: the fields convert reads
ObservationReferenceRanges ==
    { [low |-> None, high |-> None, type |-> None, normalValue |-> None, text |-> None],
      [low |-> Some("Quantity"), high |-> None, type |-> None, normalValue |-> None,
       text |-> Some("Normal range")] }

ObservationComponentFields ==
    BackboneElementFields @@ ValueFields @@
    [ dataAbsentReason |-> FK("CodeableConcept"),
      interpretation   |-> Rows({"cc-1"}),
      reference_ranges |-> Rows(ObservationReferenceRanges) ]

\* rows of ObservationComponent as convert_observation_component reads them
ObservationComponents ==
    { [[f \in DOMAIN ValueFields |-> None] EXCEPT !.valueString = Some("high")] @@
        [code |-> Some("cc-comp"), dataAbsentReason |-> None,
         interpretation |-> <<>>, reference_ranges |-> <<>>],
      \* a row stored without clean(), with two value[x] slots
      [[f \in DOMAIN ValueFields |-> None] EXCEPT !.valueBoolean = Some(FALSE),
                                                  !.valueTime = Some(8)] @@
        [code |-> Some("cc-comp"), dataAbsentReason |-> None,
         interpretation |-> <<>>, reference_ranges |-> <<>>] }

\* a referenced Encounter: the serializer reads its fhir_id
Encounters == { [fhir_id |-> None], [fhir_id |-> Some("enc-1")] }

ObservationFields ==
    DomainResourceFields @@ ValueFields @@
    [ category          |-> Rows({"cc-1", "cc-2"}),
      subject           |-> FK("Patient/pt-1"),
      encounter         |-> Opt(Encounters),
      effectiveDateTime |-> DateTime,
      effectiveInstant  |-> DateTime,
      effectivePeriod   |-> FK("Period"),
      issued            |-> DateTime,
      performer         |-> Rows({"Practitioner/pr-1"}),
      dataAbsentReason  |-> FK("CodeableConcept"),
      interpretation    |-> Rows({"cc-1"}),
      \* a JSON list of annotations
      note              |-> Opt({<<>>, <<"annotation">>}),
      bodySite          |-> FK("CodeableConcept"),
      method            |-> FK("CodeableConcept"),
      specimen          |-> FK("Specimen/sp-1"),
      device            |-> FK("Device/dev-1"),
      reference_ranges  |-> Rows(ObservationReferenceRanges),
      components        |-> Rows(ObservationComponents) ]

\* rows of EncounterParticipant as convert_encounter_participant reads them
EncounterParticipants ==
    { [type |-> <<>>, period |-> None, actor |-> None],
      [type |-> <<>>, period |-> None, actor |-> Some("Practitioner/pr-1")] }

\* rows of EncounterDiagnosis, EncounterLocation; the EncounterAdmission row
EncounterDiagnoses == { [condition |-> Some("Condition/cond-1"), use |-> <<>>] }

EncounterLocations ==
    { [location |-> Some("Location/loc-1"), status |-> None, form |-> None, period |-> None] }

EncounterAdmissions ==
    { [admitSource |-> None, reAdmission |-> None, dischargeDisposition |-> None,
       origin |-> None, destination |-> None],
      [admitSource |-> None, reAdmission |-> None, dischargeDisposition |-> None,
       origin |-> Some("Location/loc-1"), destination |-> None] }

EncounterParticipantFields ==
    BackboneElementFields @@
    [ period |-> FK("Period"),
      actor  |-> FK("Practitioner/pr-1"),
      type   |-> Rows({"cc-1"}) ]

EncounterFields ==
    DomainResourceFields @@
    [ priority         |-> FK("CodeableConcept"),
      type             |-> Rows({"cc-1", "cc-2"}),
      subject          |-> FK("Patient/pt-1"),
      partOf           |-> FK("Encounter/2"),
      serviceProvider  |-> FK("Organization/org-1"),
      actualPeriod     |-> FK("Period"),
      plannedStartDate |-> DateTimes,
      plannedEndDate   |-> DateTimes,
      length           |-> FK("Duration"),
      period           |-> FK("Period"),
      note             |-> Strs,
      participants     |-> Rows(EncounterParticipants),
      diagnoses        |-> Rows(EncounterDiagnoses),
      admission        |-> Opt(EncounterAdmissions),
      locations        |-> Rows(EncounterLocations) ]

\* Organization.name as its characters: '', '  ', 'TH' and ' a '
Names == { <<>>, <<" ", " ">>, <<"T", "H">>, <<" ", "a", " ">> }

\* rows of ContactDetail: the `use` of each of its telecom ContactPoints
ContactDetails == { <<"work">>, <<"mobile", "home">> }

OrganizationFields ==
    DomainResourceFields @@
    [ name        |-> Opt(Names),
      partOf      |-> FK("Organization/2"),
      identifiers |-> Rows({"identifier-1"}),
      contacts    |-> Rows(ContactDetails) ]

PatientFields ==
    DomainResourceFields @@
    [ deceasedBoolean      |-> Bools,
      deceasedDateTime     |-> DateTime,
      multipleBirthBoolean |-> Bools,
      multipleBirthInteger |-> Ints ]

PractitionerFields ==
    DomainResourceFields @@
    [ deceasedBoolean  |-> Bools,
      deceasedDateTime |-> DateTime ]

PatientLinkFields ==
    [ other_patient        |-> FK("Patient/2"),
      other_related_person |-> FK("RelatedPerson/1") ]

\* a canonical url as its characters: '', 'u', 'u|1', 'u#f'
CanonicalUrls == Opt({ <<>>, <<"u">>, <<"u", "|", "1">>, <<"u", "#", "f">> })

\* a concrete subclass of the abstract CanonicalResource, with no fields and
\* no rules of its own
CanonicalResourceFields ==
    DomainResourceFields @@
    [ url                    |-> CanonicalUrls,
      versionAlgorithmString |-> Strs,
      versionAlgorithmCoding |-> FK("Coding") ]

Kinds ==
    { "Extension", "ObservationComponent", "EncounterParticipant", "Observation",
      "Encounter", "Organization", "Patient", "Practitioner", "PatientLink",
      "CanonicalResource" }

Fields(kind) ==
    CASE kind = "Extension"            -> AbstractExtensionFields
      [] kind = "ObservationComponent" -> ObservationComponentFields
      [] kind = "EncounterParticipant" -> EncounterParticipantFields
      [] kind = "Observation"          -> ObservationFields
      [] kind = "Encounter"            -> EncounterFields
      [] kind = "Organization"         -> OrganizationFields
      [] kind = "Patient"              -> PatientFields
      [] kind = "Practitioner"         -> PractitionerFields
      [] kind = "PatientLink"          -> PatientLinkFields
      [] kind = "CanonicalResource"    -> CanonicalResourceFields

\* the fields that are relation managers: their rows reference the instance's pk
Relations ==
    { "extension", "contained", "category", "performer", "interpretation",
      "reference_ranges", "components", "type", "participants", "diagnoses",
      "admission", "locations", "identifiers", "contacts" }

\* the `choices` of the status field; 'final' and '' are outside Encounter's
Statuses(kind) ==
    CASE kind = "Encounter"   -> {"", "planned", "discharged", "completed", "final"}
      [] kind = "Observation" -> {"", "final"}
      [] OTHER                -> {""}

\* the required foreign keys (Encounter.class_field, Observation.code) are
\* given to every constructor call
Required(kind) ==
    CASE kind = "Encounter"   -> [class_field |-> Some("cc-class")]
      [] kind = "Observation" -> [code |-> Some("cc-code")]
      [] OTHER                -> <<>>

\* Model(**kwargs) with the required kwargs only
New(kind) ==
    [f \in DOMAIN Fields(kind) |-> None] @@ Required(kind) @@
    [kind |-> kind, pk |-> None, status |-> ""]

FieldNames(e) == DOMAIN Fields(e.kind)

\* number of optional fields and relations of e holding something
Populated(e) == Cardinality({f \in FieldNames(e) : e[f] # None})

NoCall == [op |-> "none"]


(***************************************************************************)
(* Model.clean of every class, in the order Python resolves it.  A clean   *)
(* yields OK or the message of the first ValidationError raised.           *)
(***************************************************************************)
\* the slots counted by truthiness instead of `is not None`
AbstractExtension_clean_Truthy(self) ==
    LET value_fields == << "value_string", "value_boolean", "value_integer",
                           "value_decimal", "value_datetime", "value_period" >>
        truthy(f) ==
            CASE f = "value_string"  -> TruthyStr(self[f])
              [] f = "value_boolean" -> self[f] = Some(TRUE)
              [] f \in {"value_integer", "value_decimal"} -> self[f] # None /\ self[f][1] # 0
              [] OTHER -> TruthyRef(self[f])
        set_values == SelectSeq(value_fields, truthy)
    IN  IF Len(set_values) > 1
        THEN "Only one value[x] can be set per Extension."
        ELSE OK

AbstractExtension_clean(self) ==
    LET value_fields == << "value_string", "value_boolean", "value_integer",
                           "value_decimal", "value_datetime", "value_period" >>
        set_values == SelectSeq(value_fields, LAMBDA f : self[f] # None)
    IN  IF Len(set_values) > 1
        THEN "Only one value[x] can be set per Extension."
        ELSE OK

\* `self.fhir_id is None` instead of `not self.fhir_id`
Element_clean_IsNone(self) ==
    LET has_children == FALSE
        has_extension == IF self.pk # None THEN Exists(self.extension) ELSE FALSE
    IN  IF (has_children \/ has_extension) /\ self.fhir_id = None
        THEN "Element.fhir_id is required when element has children or extensions"
        ELSE OK

Element_clean(self) ==
    LET \* no model of the repository declares an attribute `children`
        has_children == FALSE
        has_extension == IF self.pk # None THEN Exists(self.extension) ELSE FALSE
    IN  IF (has_children \/ has_extension) /\ ~TruthyStr(self.fhir_id)
        THEN "Element.fhir_id is required when element has children or extensions"
        ELSE OK

\* Resource as a subclass of Element: Element.clean runs first
Resource_clean_Element(self) ==
    LET super == Element_clean(self)
    IN  IF super # OK THEN super
        ELSE IF TruthyStr(self.implicitRules) /\ ~TruthyStr(self.fhir_id)
        THEN "Resource.fhir_id is required when resource has implicit rules"
        ELSE OK

Resource_clean(self) ==
    IF TruthyStr(self.implicitRules) /\ ~TruthyStr(self.fhir_id)
    THEN "Resource.fhir_id is required when resource has implicit rules"
    ELSE OK

\* the security-label clause left out
DomainResource_clean_NoSecurity(self) ==
    LET super == Resource_clean(self)
    IN  IF super # OK THEN super
        ELSE IF TruthyRef(self.container)
        THEN IF Exists(self.contained)
             THEN "Contained resources cannot themselves contain other resources"
             ELSE IF TruthyRef(self.meta)
                     /\ (TruthyStr(self.meta[1].versionId) \/ TruthyRef(self.meta[1].lastUpdated))
             THEN "Contained resources cannot have meta.versionId or meta.lastUpdated"
             ELSE OK
        ELSE OK

\* the meta clauses before the clause on the contained set
DomainResource_clean_MetaFirst(self) ==
    LET super == Resource_clean(self)
    IN  IF super # OK THEN super
        ELSE IF TruthyRef(self.container)
        THEN IF TruthyRef(self.meta)
                /\ (TruthyStr(self.meta[1].versionId) \/ TruthyRef(self.meta[1].lastUpdated))
             THEN "Contained resources cannot have meta.versionId or meta.lastUpdated"
             ELSE IF TruthyRef(self.meta) /\ Exists(self.meta[1].security)
             THEN "Contained resources cannot have security labels"
             ELSE IF Exists(self.contained)
             THEN "Contained resources cannot themselves contain other resources"
             ELSE OK
        ELSE OK

DomainResource_clean(self) ==
    LET super == Resource_clean(self)
    IN  IF super # OK THEN super
        ELSE IF TruthyRef(self.container)
        THEN IF Exists(self.contained)
             THEN "Contained resources cannot themselves contain other resources"
             ELSE IF TruthyRef(self.meta)
                     /\ (TruthyStr(self.meta[1].versionId) \/ TruthyRef(self.meta[1].lastUpdated))
             THEN "Contained resources cannot have meta.versionId or meta.lastUpdated"
             ELSE IF TruthyRef(self.meta) /\ Exists(self.meta[1].security)
             THEN "Contained resources cannot have security labels"
             ELSE OK
        ELSE OK

ObservationComponent_clean(self) ==
    LET super == Element_clean(self)
        value_fields == << "valueQuantity", "valueCodeableConcept", "valueString", "valueBoolean",
                           "valueInteger", "valueRange", "valuePeriod", "valueDateTime", "valueTime" >>
        set_values == SelectSeq(value_fields, LAMBDA f : self[f] # None)
    IN  IF super # OK THEN super
        ELSE IF Len(set_values) > 1
        THEN "Only one value[x] can be set per ObservationComponent"
        ELSE OK

\* valueRange missing from value_fields
Observation_clean_NoRange(self) ==
    LET super == DomainResource_clean(self)
        effective_fields == << "effectiveDateTime", "effectiveInstant", "effectivePeriod" >>
        set_effectives == SelectSeq(effective_fields, LAMBDA f : self[f] # None)
        value_fields == << "valueQuantity", "valueCodeableConcept", "valueString", "valueBoolean",
                           "valueInteger", "valuePeriod", "valueDateTime", "valueTime" >>
        set_values == SelectSeq(value_fields, LAMBDA f : self[f] # None)
    IN  IF super # OK THEN super
        ELSE IF Len(set_effectives) > 1
        THEN "Only one effective[x] field can be set"
        ELSE IF Len(set_values) > 1
        THEN "Only one value[x] field can be set"
        ELSE IF self.pk # None /\ Len(set_values) > 0 /\ TruthyRef(self.dataAbsentReason)
        THEN "dataAbsentReason shall only be present if there is no value[x]"
        ELSE OK

\* the dataAbsentReason rule applied to unsaved instances only
Observation_clean_Unsaved(self) ==
    LET super == DomainResource_clean(self)
        effective_fields == << "effectiveDateTime", "effectiveInstant", "effectivePeriod" >>
        set_effectives == SelectSeq(effective_fields, LAMBDA f : self[f] # None)
        value_fields == << "valueQuantity", "valueCodeableConcept", "valueString", "valueBoolean",
                           "valueInteger", "valueRange", "valuePeriod", "valueDateTime", "valueTime" >>
        set_values == SelectSeq(value_fields, LAMBDA f : self[f] # None)
    IN  IF super # OK THEN super
        ELSE IF Len(set_effectives) > 1
        THEN "Only one effective[x] field can be set"
        ELSE IF Len(set_values) > 1
        THEN "Only one value[x] field can be set"
        ELSE IF self.pk = None /\ Len(set_values) > 0 /\ TruthyRef(self.dataAbsentReason)
        THEN "dataAbsentReason shall only be present if there is no value[x]"
        ELSE OK

\* the dataAbsentReason rule applied to unsaved instances as well
Observation_clean_Always(self) ==
    LET super == DomainResource_clean(self)
        effective_fields == << "effectiveDateTime", "effectiveInstant", "effectivePeriod" >>
        set_effectives == SelectSeq(effective_fields, LAMBDA f : self[f] # None)
        value_fields == << "valueQuantity", "valueCodeableConcept", "valueString", "valueBoolean",
                           "valueInteger", "valueRange", "valuePeriod", "valueDateTime", "valueTime" >>
        set_values == SelectSeq(value_fields, LAMBDA f : self[f] # None)
    IN  IF super # OK THEN super
        ELSE IF Len(set_effectives) > 1
        THEN "Only one effective[x] field can be set"
        ELSE IF Len(set_values) > 1
        THEN "Only one value[x] field can be set"
        ELSE IF Len(set_values) > 0 /\ TruthyRef(self.dataAbsentReason)
        THEN "dataAbsentReason shall only be present if there is no value[x]"
        ELSE OK

Observation_clean(self) ==
    LET super == DomainResource_clean(self)
        effective_fields == << "effectiveDateTime", "effectiveInstant", "effectivePeriod" >>
        set_effectives == SelectSeq(effective_fields, LAMBDA f : self[f] # None)
        value_fields == << "valueQuantity", "valueCodeableConcept", "valueString", "valueBoolean",
                           "valueInteger", "valueRange", "valuePeriod", "valueDateTime", "valueTime" >>
        set_values == SelectSeq(value_fields, LAMBDA f : self[f] # None)
    IN  IF super # OK THEN super
        ELSE IF Len(set_effectives) > 1
        THEN "Only one effective[x] field can be set"
        ELSE IF Len(set_values) > 1
        THEN "Only one value[x] field can be set"
        ELSE IF self.pk # None /\ Len(set_values) > 0 /\ TruthyRef(self.dataAbsentReason)
        THEN "dataAbsentReason shall only be present if there is no value[x]"
        ELSE OK

\* `>=` instead of `>` between the planned dates
Encounter_clean_Strict(self) ==
    LET super == DomainResource_clean(self)
    IN  IF super # OK THEN super
        ELSE IF TruthyRef(self.plannedStartDate) /\ TruthyRef(self.plannedEndDate)
                /\ self.plannedStartDate[1] >= self.plannedEndDate[1]
        THEN "Encounter planned start date must be before or equal to planned end date"
        ELSE IF self.status \in {"completed", "discharged"} /\ ~TruthyRef(self.period)
        THEN "Completed or discharged encounters should have a period defined"
        ELSE OK

\* 'discharged' missing from the status list
Encounter_clean_CompletedOnly(self) ==
    LET super == DomainResource_clean(self)
    IN  IF super # OK THEN super
        ELSE IF TruthyRef(self.plannedStartDate) /\ TruthyRef(self.plannedEndDate)
                /\ self.plannedStartDate[1] > self.plannedEndDate[1]
        THEN "Encounter planned start date must be before or equal to planned end date"
        ELSE IF self.status \in {"completed"} /\ ~TruthyRef(self.period)
        THEN "Completed or discharged encounters should have a period defined"
        ELSE OK

\* the Encounter rules first, super().clean() last
Encounter_clean_DerivedFirst(self) ==
    IF TruthyRef(self.plannedStartDate) /\ TruthyRef(self.plannedEndDate)
       /\ self.plannedStartDate[1] > self.plannedEndDate[1]
    THEN "Encounter planned start date must be before or equal to planned end date"
    ELSE IF self.status \in {"completed", "discharged"} /\ ~TruthyRef(self.period)
    THEN "Completed or discharged encounters should have a period defined"
    ELSE DomainResource_clean(self)

Encounter_clean(self) ==
    LET super == DomainResource_clean(self)
    IN  IF super # OK THEN super
        ELSE IF TruthyRef(self.plannedStartDate) /\ TruthyRef(self.plannedEndDate)
                /\ self.plannedStartDate[1] > self.plannedEndDate[1]
        THEN "Encounter planned start date must be before or equal to planned end date"
        ELSE IF self.status \in {"completed", "discharged"} /\ ~TruthyRef(self.period)
        THEN "Completed or discharged encounters should have a period defined"
        ELSE OK

\* str.strip(): the string without its leading and trailing blanks
RECURSIVE LStrip(_)
LStrip(s) == IF s # <<>> /\ Head(s) = " " THEN LStrip(Tail(s)) ELSE s

RECURSIVE RStrip(_)
RStrip(s) == IF s # <<>> /\ s[Len(s)] = " " THEN RStrip(SubSeq(s, 1, Len(s) - 1)) ELSE s

Strip(s) == RStrip(LStrip(s))

\* clean() without the call of super().clean()
Organization_clean_NoSuper(self) ==
    LET has_identifier == self.pk # None /\ Exists(self.identifiers)
        has_name == self.name # None /\ self.name[1] # <<>> /\ Strip(self.name[1]) # <<>>
    IN  IF ~(has_identifier \/ has_name)
        THEN "Organization must have at least a name or an identifier"
        ELSE IF self.pk # None
                /\ \E c \in DOMAIN self.contacts :
                      \E t \in DOMAIN self.contacts[c] : self.contacts[c][t] = "home"
        THEN "Organization contact telecom cannot have 'home' use"
        ELSE OK

\* bool(self.name) without strip()
Organization_clean_NoStrip(self) ==
    LET super == DomainResource_clean(self)
        has_identifier == self.pk # None /\ Exists(self.identifiers)
        has_name == self.name # None /\ self.name[1] # <<>>
    IN  IF super # OK THEN super
        ELSE IF ~(has_identifier \/ has_name)
        THEN "Organization must have at least a name or an identifier"
        ELSE IF self.pk # None
                /\ \E c \in DOMAIN self.contacts :
                      \E t \in DOMAIN self.contacts[c] : self.contacts[c][t] = "home"
        THEN "Organization contact telecom cannot have 'home' use"
        ELSE OK

\* only the first telecom entry of each contact is looked at
Organization_clean_FirstTelecom(self) ==
    LET super == DomainResource_clean(self)
        has_identifier == self.pk # None /\ Exists(self.identifiers)
        has_name == self.name # None /\ self.name[1] # <<>> /\ Strip(self.name[1]) # <<>>
    IN  IF super # OK THEN super
        ELSE IF ~(has_identifier \/ has_name)
        THEN "Organization must have at least a name or an identifier"
        ELSE IF self.pk # None
                /\ \E c \in DOMAIN self.contacts :
                      self.contacts[c] # <<>> /\ self.contacts[c][1] = "home"
        THEN "Organization contact telecom cannot have 'home' use"
        ELSE OK

Organization_clean(self) ==
    LET super == DomainResource_clean(self)
        has_identifier == self.pk # None /\ Exists(self.identifiers)
        has_name == self.name # None /\ self.name[1] # <<>> /\ Strip(self.name[1]) # <<>>
    IN  IF super # OK THEN super
        ELSE IF ~(has_identifier \/ has_name)
        THEN "Organization must have at least a name or an identifier"
        ELSE IF self.pk # None
                /\ \E c \in DOMAIN self.contacts :
                      \E t \in DOMAIN self.contacts[c] : self.contacts[c][t] = "home"
        THEN "Organization contact telecom cannot have 'home' use"
        ELSE OK

(***************************************************************************)
(* patient/models.py and practitioner/models.py: the rules of the          *)
(* specification (choice groups deceased[x] and multipleBirth[x], the      *)
(* "exactly one other party" rule of PatientLink).                         *)
(***************************************************************************)
\* the choice-type validator: how many fields of the group are non-null
ChoiceCount(self, group) == Len(SelectSeq(group, LAMBDA f : self[f] # None))

Practitioner_clean(self) ==
    LET super == DomainResource_clean(self)
    IN  IF super # OK THEN super
        ELSE IF ChoiceCount(self, << "deceasedBoolean", "deceasedDateTime" >>) > 1
        THEN "Only one deceased[x] field can be set"
        ELSE OK

Patient_clean(self) ==
    LET super == DomainResource_clean(self)
    IN  IF super # OK THEN super
        ELSE IF ChoiceCount(self, << "deceasedBoolean", "deceasedDateTime" >>) > 1
        THEN "Only one deceased[x] field can be set"
        ELSE IF ChoiceCount(self, << "multipleBirthBoolean", "multipleBirthInteger" >>) > 1
        THEN "Only one multipleBirth[x] field can be set"
        ELSE OK

\* "at least one" instead of "exactly one"
PatientLink_clean_AtLeastOne(self) ==
    IF ChoiceCount(self, << "other_patient", "other_related_person" >>) < 1
    THEN "PatientLink must reference exactly one other Patient or RelatedPerson"
    ELSE OK

PatientLink_clean(self) ==
    IF ChoiceCount(self, << "other_patient", "other_related_person" >>) # 1
    THEN "PatientLink must reference exactly one other Patient or RelatedPerson"
    ELSE OK

CanonicalResource_clean(self) ==
    LET super == DomainResource_clean(self)
    IN  IF super # OK THEN super
        ELSE IF TruthyStr(self.versionAlgorithmString)
                /\ TruthyRef(self.versionAlgorithmCoding)
        THEN "Only one versionAlgorithm[x] field can be set"
        ELSE IF self.url # None /\ self.url[1] # <<>>
                /\ \E i \in DOMAIN self.url[1] : self.url[1][i] \in {"|", "#"}
        THEN "URL should not contain | or # characters"
        ELSE OK

\* self.clean() by the class of self
Clean(self) ==
    CASE self.kind = "Extension"            -> AbstractExtension_clean(self)
      [] self.kind = "ObservationComponent" -> ObservationComponent_clean(self)
      [] self.kind = "EncounterParticipant" -> Element_clean(self)
      [] self.kind = "Observation"          -> Observation_clean(self)
      [] self.kind = "Encounter"            -> Encounter_clean(self)
      [] self.kind = "Organization"         -> Organization_clean(self)
      [] self.kind = "Patient"              -> Patient_clean(self)
      [] self.kind = "Practitioner"         -> Practitioner_clean(self)
      [] self.kind = "PatientLink"          -> PatientLink_clean(self)
      [] self.kind = "CanonicalResource"    -> CanonicalResource_clean(self)

(***************************************************************************)
(* Serialization.  A dict is a function from its keys; {} is <<>>.         *)
(***************************************************************************)
\* data[key] = val, when cond
Put(cond, key, val) == IF cond THEN key :> val ELSE <<>>

\* every converted row kept and every list emitted, empty or not
TruthyDoc_Always(d) == TRUE

\* bool(d) of a dict or a list
TruthyDoc(d) == d # <<>>

\* [conv(x) for x in rows if conv(x)]
Converted(rows, conv(_)) ==
    SelectSeq([i \in DOMAIN rows |-> conv(rows[i])], TruthyDoc)

\* components.serializers: the wire form of a CodeableConcept, Period, Quantity
convert_codeable_concept(cc) == [text |-> cc]
convert_period(p) == [start |-> p]
convert_quantity(q) == [value |-> q]

\* datetime.isoformat()
isoformat(t) == [iso |-> t]

convert_observation_reference_range(rr) ==
    Put(TruthyRef(rr.low), "low", convert_quantity(rr.low[1]))
    @@ Put(TruthyRef(rr.high), "high", convert_quantity(rr.high[1]))
    @@ Put(TruthyRef(rr.type), "type", convert_codeable_concept(rr.type[1]))
    @@ Put(TruthyRef(rr.normalValue), "normalValue", convert_codeable_concept(rr.normalValue[1]))
    @@ Put(TruthyStr(rr.text), "text", rr.text[1])

\* every branch an `if` of its own instead of one if/elif chain
convert_value_Ifs(o) ==
    Put(TruthyRef(o.valueQuantity), "valueQuantity", convert_quantity(o.valueQuantity[1]))
    @@ Put(TruthyRef(o.valueCodeableConcept), "valueCodeableConcept",
           convert_codeable_concept(o.valueCodeableConcept[1]))
    @@ Put(TruthyStr(o.valueString), "valueString", o.valueString[1])
    @@ Put(o.valueBoolean # None, "valueBoolean", o.valueBoolean[1])
    @@ Put(o.valueInteger # None, "valueInteger", o.valueInteger[1])
    @@ Put(TruthyRef(o.valuePeriod), "valuePeriod", convert_period(o.valuePeriod[1]))
    @@ Put(TruthyRef(o.valueDateTime), "valueDateTime", isoformat(o.valueDateTime[1]))
    @@ Put(TruthyRef(o.valueTime), "valueTime", isoformat(o.valueTime[1]))

\* the if / elif chain over value[x]: the first branch whose test holds
convert_value(o) ==
    IF TruthyRef(o.valueQuantity)
    THEN "valueQuantity" :> convert_quantity(o.valueQuantity[1])
    ELSE IF TruthyRef(o.valueCodeableConcept)
    THEN "valueCodeableConcept" :> convert_codeable_concept(o.valueCodeableConcept[1])
    ELSE IF TruthyStr(o.valueString)
    THEN "valueString" :> o.valueString[1]
    ELSE IF o.valueBoolean # None
    THEN "valueBoolean" :> o.valueBoolean[1]
    ELSE IF o.valueInteger # None
    THEN "valueInteger" :> o.valueInteger[1]
    ELSE IF TruthyRef(o.valuePeriod)
    THEN "valuePeriod" :> convert_period(o.valuePeriod[1])
    ELSE IF TruthyRef(o.valueDateTime)
    THEN "valueDateTime" :> isoformat(o.valueDateTime[1])
    ELSE IF TruthyRef(o.valueTime)
    THEN "valueTime" :> isoformat(o.valueTime[1])
    ELSE <<>>

convert_observation_component(django_component) ==
    ("code" :> convert_codeable_concept(django_component.code[1]))
    @@ convert_value(django_component)
    @@ Put(TruthyRef(django_component.dataAbsentReason), "dataAbsentReason",
           convert_codeable_concept(django_component.dataAbsentReason[1]))
    @@ LET interpretations == Converted(django_component.interpretation, convert_codeable_concept)
       IN  Put(TruthyDoc(interpretations), "interpretation", interpretations)
    @@ LET reference_ranges ==
               Converted(django_component.reference_ranges, convert_observation_reference_range)
       IN  Put(TruthyDoc(reference_ranges), "referenceRange", reference_ranges)

convert_observation(django_obs) ==
    [resourceType |-> "Observation",
     status |-> django_obs.status,
     code |-> convert_codeable_concept(django_obs.code[1])]
    @@ Put(TruthyStr(django_obs.fhir_id), "id", django_obs.fhir_id[1])
    @@ LET categories == Converted(django_obs.category, convert_codeable_concept)
       IN  Put(TruthyDoc(categories), "category", categories)
    @@ Put(TruthyRef(django_obs.subject), "subject", [reference |-> django_obs.subject[1]])
    @@ Put(TruthyRef(django_obs.encounter), "encounter",
           [reference |-> <<"Encounter/", django_obs.encounter[1].fhir_id>>])
    @@ (IF TruthyRef(django_obs.effectiveDateTime)
        THEN "effectiveDateTime" :> isoformat(django_obs.effectiveDateTime[1])
        ELSE IF TruthyRef(django_obs.effectiveInstant)
        THEN "effectiveInstant" :> isoformat(django_obs.effectiveInstant[1])
        ELSE IF TruthyRef(django_obs.effectivePeriod)
        THEN "effectivePeriod" :> convert_period(django_obs.effectivePeriod[1])
        ELSE <<>>)
    @@ Put(TruthyRef(django_obs.issued), "issued", isoformat(django_obs.issued[1]))
    @@ convert_value(django_obs)
    @@ Put(TruthyRef(django_obs.dataAbsentReason), "dataAbsentReason",
           convert_codeable_concept(django_obs.dataAbsentReason[1]))
    @@ LET interpretations == Converted(django_obs.interpretation, convert_codeable_concept)
       IN  Put(TruthyDoc(interpretations), "interpretation", interpretations)
    @@ Put(django_obs.note # None /\ TruthyDoc(django_obs.note[1]), "note", django_obs.note[1])
    @@ Put(TruthyRef(django_obs.bodySite), "bodySite",
           convert_codeable_concept(django_obs.bodySite[1]))
    @@ Put(TruthyRef(django_obs.method), "method", convert_codeable_concept(django_obs.method[1]))
    @@ LET reference_ranges ==
               Converted(django_obs.reference_ranges, convert_observation_reference_range)
       IN  Put(TruthyDoc(reference_ranges), "referenceRange", reference_ranges)
    @@ LET obs_components == Converted(django_obs.components, convert_observation_component)
       IN  Put(TruthyDoc(obs_components), "component", obs_components)

convert_encounter_participant(django_participant) ==
    LET types == Converted(django_participant.type, convert_codeable_concept)
    IN  Put(TruthyDoc(types), "type", types)
        @@ Put(TruthyRef(django_participant.period), "period",
               convert_period(django_participant.period[1]))
        @@ Put(TruthyRef(django_participant.actor), "actor",
               [reference |-> django_participant.actor[1]])

convert_encounter_diagnosis(django_diagnosis) ==
    ("condition" :> << [reference |-> django_diagnosis.condition[1]] >>)
    @@ LET uses == Converted(django_diagnosis.use, convert_codeable_concept)
       IN  Put(TruthyDoc(uses), "use", uses)

convert_encounter_admission(django_admission) ==
    Put(TruthyRef(django_admission.admitSource), "admitSource",
        convert_codeable_concept(django_admission.admitSource[1]))
    @@ Put(TruthyRef(django_admission.reAdmission), "reAdmission",
           convert_codeable_concept(django_admission.reAdmission[1]))
    @@ Put(TruthyRef(django_admission.dischargeDisposition), "dischargeDisposition",
           convert_codeable_concept(django_admission.dischargeDisposition[1]))
    @@ Put(TruthyRef(django_admission.origin), "origin",
           [reference |-> django_admission.origin[1]])
    @@ Put(TruthyRef(django_admission.destination), "destination",
           [reference |-> django_admission.destination[1]])

convert_encounter_location(django_loc) ==
    ("location" :> [reference |-> django_loc.location[1]])
    @@ Put(TruthyStr(django_loc.status), "status", django_loc.status[1])
    @@ Put(TruthyRef(django_loc.form), "form", convert_codeable_concept(django_loc.form[1]))
    @@ Put(TruthyRef(django_loc.period), "period", convert_period(django_loc.period[1]))

convert_encounter(django_encounter) ==
    ("resourceType" :> "Encounter")
    @@ ("status" :> django_encounter.status)
    @@ ("class" :> << convert_codeable_concept(django_encounter.class_field[1]) >>)
    @@ Put(TruthyStr(django_encounter.fhir_id), "id", django_encounter.fhir_id[1])
    @@ Put(TruthyRef(django_encounter.priority), "priority",
           convert_codeable_concept(django_encounter.priority[1]))
    @@ Put(TruthyRef(django_encounter.subject), "subject",
           [reference |-> django_encounter.subject[1]])
    @@ Put(TruthyRef(django_encounter.actualPeriod), "actualPeriod",
           convert_period(django_encounter.actualPeriod[1]))
    @@ Put(TruthyRef(django_encounter.plannedStartDate), "plannedStartDate",
           isoformat(django_encounter.plannedStartDate[1]))
    @@ Put(TruthyRef(django_encounter.plannedEndDate), "plannedEndDate",
           isoformat(django_encounter.plannedEndDate[1]))
    @@ LET types == Converted(django_encounter.type, convert_codeable_concept)
       IN  Put(TruthyDoc(types), "type", types)
    @@ LET participants ==
               Converted(django_encounter.participants, convert_encounter_participant)
       IN  Put(TruthyDoc(participants), "participant", participants)
    @@ LET diagnoses == Converted(django_encounter.diagnoses, convert_encounter_diagnosis)
       IN  Put(TruthyDoc(diagnoses), "diagnosis", diagnoses)
    @@ (IF django_encounter.admission # None
        THEN LET admission_data == convert_encounter_admission(django_encounter.admission[1])
             IN  Put(TruthyDoc(admission_data), "admission", admission_data)
        ELSE <<>>)
    @@ LET locations == Converted(django_encounter.locations, convert_encounter_location)
       IN  Put(TruthyDoc(locations), "location", locations)

\* the convert function the detail view of the resource calls
Serialize(self) ==
    CASE self.kind = "Encounter"   -> convert_encounter(self)
      [] self.kind = "Observation" -> convert_observation(self)

(***************************************************************************)
(* Operations on the instance.                                             *)
(***************************************************************************)
\* DomainResource.modifierExtension: a second GenericRelation to
\* components.Extension over the same content_type and object_id columns as
\* `extension`, so the manager yields the same rows
modifierExtension(self) == self.extension

\* the test case constructs an instance of one model
Init ==
    /\ obj \in {New(k) : k \in Kinds}
    /\ ret = NoCall
    /\ db = {}

\* Model(field=value) / instance.field = value
SetField ==
    \E f \in FieldNames(obj) \ Relations : \E v \in Fields(obj.kind)[f] :
        /\ v # obj[f]
        /\ obj[f] # None \/ Populated(obj) < MaxPopulated
        /\ obj' = [obj EXCEPT ![f] = v]
        /\ ret' = NoCall
        /\ UNCHANGED db

\* Model(status=value): a CharField with choices; neither the constructor
\* nor save() checks the choices
SetStatus ==
    \E s \in Statuses(obj.kind) :
        /\ s # obj.status
        /\ obj' = [obj EXCEPT !.status = s]
        /\ ret' = NoCall
        /\ UNCHANGED db

\* a save() that calls full_clean() first and raises on an invalid instance
Save_FullClean ==
    /\ obj.pk = None
    /\ Clean(obj) = OK
    /\ obj' = [obj EXCEPT !.pk = Some(1)]
    /\ ret' = NoCall
    /\ UNCHANGED db

\* Model.objects.create(...) / instance.save(): the row gets its primary
\* key; clean() is not called
Save ==
    /\ obj.pk = None
    /\ obj' = [obj EXCEPT !.pk = Some(1)]
    /\ ret' = NoCall
    /\ UNCHANGED db

\* rows are added to or removed from a relation of the saved instance:
\* manager.add(row), Related.objects.create(owner=instance)
Relate ==
    \E f \in FieldNames(obj) \cap Relations : \E v \in Fields(obj.kind)[f] :
        /\ obj.pk # None
        /\ v # obj[f]
        /\ obj[f] # None \/ Populated(obj) < MaxPopulated
        /\ obj' = [obj EXCEPT ![f] = v]
        /\ ret' = NoCall
        /\ UNCHANGED db

\* a clean() that stores the instance it has checked
Validate_Saving ==
    /\ ret.op # "clean"
    /\ ret' = [op |-> "clean", error |-> Clean(obj)]
    /\ obj' = [obj EXCEPT !.pk = Some(1)]
    /\ UNCHANGED db

\* instance.clean()
Validate ==
    /\ ret.op # "clean"
    /\ ret' = [op |-> "clean", error |-> Clean(obj)]
    /\ UNCHANGED <<obj, db>>

\* DetailView.get: the stored row is converted to its wire document
Convert ==
    /\ obj.kind \in {"Encounter", "Observation"}
    /\ obj.pk # None
    /\ ret.op # "convert"
    /\ ret' = [op |-> "convert", doc |-> Serialize(obj)]
    /\ UNCHANGED <<obj, db>>

Next ==
    \/ SetField
    \/ SetStatus
    \/ Save
    \/ Relate
    \/ Validate
    \/ Convert

Spec == Init /\ [][Next]_vars

(***************************************************************************)
(* The database.  A row is its table, its primary key, its logical id and  *)
(* refs, the primary key each of its ForeignKey columns holds.             *)
(***************************************************************************)
\* rows the database holds at most
MaxRows == 5

\* models.ForeignKey(to, on_delete=models.CASCADE)
Cascade(to) == [to |-> to, on_delete |-> "CASCADE", null |-> FALSE]
\* models.ForeignKey(to, on_delete=models.CASCADE, null=True)
CascadeNull(to) == [to |-> to, on_delete |-> "CASCADE", null |-> TRUE]
\* models.ForeignKey(to, null=True, on_delete=models.SET_NULL)
SetNull(to) == [to |-> to, on_delete |-> "SET_NULL", null |-> TRUE]

EncounterForeignKeys ==
    [ EncounterParticipant |->
        [ encounter |-> Cascade("Encounter"),
          period    |-> SetNull("Period"),
          actor     |-> SetNull("Reference") ],
      EncounterReason |->
        [ encounter |-> Cascade("Encounter") ],
      EncounterDiagnosis |->
        [ encounter |-> Cascade("Encounter"),
          condition |-> Cascade("Reference") ],
      EncounterAdmission |->
        [ encounter              |-> Cascade("Encounter"),
          preAdmissionIdentifier |-> SetNull("Identifier"),
          origin                 |-> SetNull("Reference"),
          admitSource            |-> SetNull("CodeableConcept"),
          reAdmission            |-> SetNull("CodeableConcept"),
          destination            |-> SetNull("Reference"),
          dischargeDisposition   |-> SetNull("CodeableConcept") ],
      EncounterLocation |->
        [ encounter |-> Cascade("Encounter"),
          location  |-> Cascade("Reference"),
          form      |-> SetNull("CodeableConcept"),
          period    |-> SetNull("Period") ],
      Encounter |->
        [ class_field     |-> Cascade("CodeableConcept"),
          priority        |-> SetNull("CodeableConcept"),
          subject         |-> SetNull("Reference"),
          subjectStatus   |-> SetNull("CodeableConcept"),
          partOf          |-> SetNull("Encounter"),
          serviceProvider |-> SetNull("Reference"),
          actualPeriod    |-> SetNull("Period"),
          length          |-> SetNull("Duration"),
          period          |-> SetNull("Period") ] ]

ObservationForeignKeys ==
    [ ObservationTriggeredBy |->
        [ observation            |-> Cascade("Observation"),
          triggering_observation |-> Cascade("Observation") ],
      ObservationReferenceRange |->
        [ observation |-> CascadeNull("Observation"),
          component   |-> CascadeNull("ObservationComponent"),
          low         |-> SetNull("Quantity"),
          high        |-> SetNull("Quantity"),
          normalValue |-> SetNull("CodeableConcept"),
          type        |-> SetNull("CodeableConcept"),
          age         |-> SetNull("Range") ],
      ObservationComponent |->
        [ observation          |-> Cascade("Observation"),
          code                 |-> Cascade("CodeableConcept"),
          dataAbsentReason     |-> SetNull("CodeableConcept"),
          valueQuantity        |-> SetNull("Quantity"),
          valueCodeableConcept |-> SetNull("CodeableConcept"),
          valueRange           |-> SetNull("Range"),
          valuePeriod          |-> SetNull("Period") ],
      Observation |->
        [ code                 |-> Cascade("CodeableConcept"),
          subject              |-> SetNull("Reference"),
          encounter            |-> SetNull("Encounter"),
          effectivePeriod      |-> SetNull("Period"),
          valueQuantity        |-> SetNull("Quantity"),
          valueCodeableConcept |-> SetNull("CodeableConcept"),
          valueRange           |-> SetNull("Range"),
          valuePeriod          |-> SetNull("Period"),
          dataAbsentReason     |-> SetNull("CodeableConcept"),
          bodySite             |-> SetNull("CodeableConcept"),
          method               |-> SetNull("CodeableConcept"),
          specimen             |-> SetNull("Reference"),
          device               |-> SetNull("Reference") ] ]

OrganizationForeignKeys ==
    [ OrganizationQualification |->
        [ organization |-> CascadeNull("Organization"),
          code         |-> Cascade("CodeableConcept"),
          period       |-> SetNull("Period"),
          issuer       |-> SetNull("Organization") ],
      Organization |->
        [ partOf |-> SetNull("Organization") ] ]

\* RelatedPerson.patient: deleting a Patient deletes its RelatedPersons
PatientForeignKeys ==
    [ RelatedPerson |-> [ patient |-> Cascade("Patient") ],
      Patient       |-> <<>> ]

\* the tables of the components app that the resources point to
ComponentTables ==
    { "CodeableConcept", "Reference", "Period", "Quantity", "Range", "Duration", "Identifier" }

ForeignKeys ==
    EncounterForeignKeys @@ ObservationForeignKeys @@ OrganizationForeignKeys
    @@ PatientForeignKeys @@ [t \in ComponentTables |-> <<>>]

\* Model.objects.create(**kwargs) as the tests call it: the table, the primary
\* key the row gets, its fhir_id and the rows passed for its ForeignKeys
Fixtures ==
    { [table |-> "CodeableConcept", pk |-> 1, fhir_id |-> None, refs |-> <<>>],
      [table |-> "Reference", pk |-> 1, fhir_id |-> None, refs |-> <<>>],
      [table |-> "Encounter", pk |-> 1, fhir_id |-> Some("enc-1"),
       refs |-> [class_field |-> 1, subject |-> 1]],
      [table |-> "Encounter", pk |-> 2, fhir_id |-> Some("enc-1"),
       refs |-> [class_field |-> 1, partOf |-> 1]],
      [table |-> "EncounterParticipant", pk |-> 1, fhir_id |-> None,
       refs |-> [encounter |-> 1, actor |-> 1]],
      [table |-> "EncounterParticipant", pk |-> 2, fhir_id |-> None,
       refs |-> [encounter |-> 2]],
      [table |-> "EncounterReason", pk |-> 1, fhir_id |-> None,
       refs |-> [encounter |-> 1]],
      [table |-> "EncounterDiagnosis", pk |-> 1, fhir_id |-> None,
       refs |-> [encounter |-> 1, condition |-> 1]],
      [table |-> "EncounterAdmission", pk |-> 1, fhir_id |-> None,
       refs |-> [encounter |-> 1, origin |-> 1]],
      [table |-> "EncounterLocation", pk |-> 1, fhir_id |-> None,
       refs |-> [encounter |-> 2, location |-> 1]],
      [table |-> "Observation", pk |-> 1, fhir_id |-> Some("obs-1"),
       refs |-> [code |-> 1, encounter |-> 1]],
      [table |-> "Observation", pk |-> 2, fhir_id |-> Some("obs-2"),
       refs |-> [code |-> 1, subject |-> 1]],
      [table |-> "ObservationComponent", pk |-> 1, fhir_id |-> None,
       refs |-> [observation |-> 1, code |-> 1]],
      [table |-> "ObservationReferenceRange", pk |-> 1, fhir_id |-> None,
       refs |-> [observation |-> 1]],
      [table |-> "ObservationReferenceRange", pk |-> 2, fhir_id |-> None,
       refs |-> [component |-> 1]],
      [table |-> "ObservationTriggeredBy", pk |-> 1, fhir_id |-> None,
       refs |-> [observation |-> 1, triggering_observation |-> 2]],
      [table |-> "Organization", pk |-> 1, fhir_id |-> Some("org-1"), refs |-> <<>>],
      [table |-> "OrganizationQualification", pk |-> 1, fhir_id |-> None,
       refs |-> [organization |-> 1, code |-> 1, issuer |-> 1]],
      [table |-> "Patient", pk |-> 1, fhir_id |-> Some("pt-1"), refs |-> <<>>],
      [table |-> "RelatedPerson", pk |-> 1, fhir_id |-> None, refs |-> [patient |-> 1]] }

\* the ForeignKey column f of the row r holds the primary key of the row t
PointsTo(r, f, t) ==
    /\ r.refs[f] = Some(t.pk)
    /\ ForeignKeys[r.table][f].to = t.table

\* Collector.collect: the rows deleted together with the rows `doomed`,
\* through every ForeignKey declared on_delete=CASCADE
RECURSIVE Collect(_, _)
Collect(rows, doomed) ==
    LET more == {r \in rows \ doomed :
                    \E f \in DOMAIN r.refs :
                        /\ ForeignKeys[r.table][f].on_delete = "CASCADE"
                        /\ \E t \in doomed : PointsTo(r, f, t)}
    IN  IF more = {} THEN doomed ELSE Collect(rows, doomed \cup more)

\* Collector.delete: the field updates of on_delete=SET_NULL on a row that stays
Detached(r, doomed) ==
    [r EXCEPT !.refs =
        [f \in DOMAIN r.refs |->
            IF /\ ForeignKeys[r.table][f].on_delete = "SET_NULL"
               /\ \E t \in doomed : PointsTo(r, f, t)
            THEN None
            ELSE r.refs[f]]]

(***************************************************************************)
(* The model instance the ORM builds of a row.                             *)
(***************************************************************************)
\* row.<field> of a ForeignKey column: None, or the related row
Related(r, f) ==
    IF r.refs[f] = None THEN None ELSE Some(<< ForeignKeys[r.table][f].to, r.refs[f][1] >>)

\* the rows S as QuerySet.all() yields them: by primary key
Ordered(S) ==
    CHOOSE s \in [1..Cardinality(S) -> S] :
        \A i, j \in 1..Cardinality(S) : i < j => s[i].pk < s[j].pk

\* the non-relational columns of the backbone tables and their many-to-many
\* managers, as created by the calls of Fixtures: unset, no row
Columns(table) ==
    CASE table = "EncounterParticipant"      -> [type |-> <<>>]
      [] table = "EncounterDiagnosis"        -> [use |-> <<>>]
      [] table = "EncounterLocation"         -> [status |-> None]
      [] table = "ObservationReferenceRange" -> [text |-> None]
      [] table = "ObservationComponent"      ->
             [ valueString |-> None, valueBoolean |-> None, valueInteger |-> None,
               valueDateTime |-> None, valueTime |-> None, interpretation |-> <<>> ]
      [] OTHER -> <<>>

\* the instance of a backbone row
Element(r) == [f \in DOMAIN r.refs |-> Related(r, f)] @@ Columns(r.table)

\* owner.<related_name>.all(): the rows of `table` whose column f holds owner
Reverse(rows, owner, table, f) ==
    LET S == {r \in rows : r.table = table /\ PointsTo(r, f, owner)}
    IN  [i \in 1..Cardinality(S) |-> Element(Ordered(S)[i])]

\* Encounter.objects.get(pk=r.pk) with its reverse managers
LoadEncounter(rows, r) ==
    LET admissions == Reverse(rows, r, "EncounterAdmission", "encounter")
    IN  [ fhir_id      |-> r.fhir_id,
          pk           |-> Some(r.pk),
          participants |-> Reverse(rows, r, "EncounterParticipant", "encounter"),
          diagnoses    |-> Reverse(rows, r, "EncounterDiagnosis", "encounter"),
          locations    |-> Reverse(rows, r, "EncounterLocation", "encounter"),
          admission    |-> IF admissions = <<>> THEN None ELSE Some(admissions[1]) ]
        @@ [f \in DOMAIN r.refs |-> Related(r, f)]
        @@ New("Encounter")

\* Observation.objects.get(pk=r.pk) with its reverse managers; .encounter is
\* the Encounter instance, of which the serializer reads fhir_id
LoadObservation(rows, r) ==
    LET comps == {c \in rows : c.table = "ObservationComponent"
                                 /\ PointsTo(c, "observation", r)}
        component(c) ==
            [ reference_ranges |->
                  Reverse(rows, c, "ObservationReferenceRange", "component") ]
            @@ Element(c)
    IN  [ fhir_id          |-> r.fhir_id,
          pk               |-> Some(r.pk),
          encounter        |->
              IF r.refs.encounter = None THEN None
              ELSE LET e == CHOOSE t \in rows : PointsTo(r, "encounter", t)
                   IN  Some([fhir_id |-> e.fhir_id]),
          reference_ranges |-> Reverse(rows, r, "ObservationReferenceRange", "observation"),
          components       |->
              [i \in 1..Cardinality(comps) |-> component(Ordered(comps)[i])] ]
        @@ [f \in DOMAIN r.refs |-> Related(r, f)]
        @@ New("Observation")

Load(rows, r) ==
    IF r.table = "Encounter" THEN LoadEncounter(rows, r) ELSE LoadObservation(rows, r)

(***************************************************************************)
(* Operations on the database.                                             *)
(***************************************************************************)
\* the resource types and logical ids the read endpoint is asked for
Requests ==
    { <<"Encounter", "enc-1">>, <<"Encounter", "enc-2">>,
      <<"Observation", "obs-1">>, <<"Observation", "obs-2">> }

\* no instance in hand, an empty database
InitStore ==
    /\ obj = None
    /\ ret = NoCall
    /\ db = {}

\* Model.objects.create(**kwargs): the row is inserted; a ForeignKey that is
\* not passed, or whose row is gone, is NULL, which a required column rejects
Create ==
    \E fx \in Fixtures :
        LET fks == ForeignKeys[fx.table]
            passed(f) ==
                /\ f \in DOMAIN fx.refs
                /\ \E t \in db : t.table = fks[f].to /\ t.pk = fx.refs[f]
        IN  /\ Cardinality(db) < MaxRows
            /\ ~\E r \in db : r.table = fx.table /\ r.pk = fx.pk
            /\ \A f \in DOMAIN fks : ~fks[f].null => passed(f)
            /\ db' = db \cup
                   { [ table   |-> fx.table,
                       pk      |-> fx.pk,
                       fhir_id |-> fx.fhir_id,
                       refs    |-> [f \in DOMAIN fks |->
                                       IF passed(f) THEN Some(fx.refs[f]) ELSE None] ] }
            /\ ret' = NoCall
            /\ UNCHANGED obj

\* instance.delete(): the row goes with every row that cascades from it, and
\* the SET_NULL columns that pointed to a deleted row are nulled
Delete ==
    \E r \in db :
        LET doomed == Collect(db, {r})
        IN  /\ db' = {Detached(x, doomed) : x \in db \ doomed}
            /\ ret' = [op |-> "delete", table |-> r.table, pk |-> r.pk]
            /\ UNCHANGED obj

\* GET /fhir/<R>/<fhir_id>/: get_object_or_404(R, fhir_id=fhir_id) answers 404
\* when no row matches and lets MultipleObjectsReturned escape (a 500) when
\* several do; the one row found is converted
Get ==
    \E rq \in Requests :
        LET found == {r \in db : r.table = rq[1] /\ r.fhir_id = Some(rq[2])}
            response ==
                IF found = {} THEN [status |-> 404]
                ELSE IF Cardinality(found) > 1 THEN [status |-> 500]
                ELSE [ status |-> 200,
                       doc |-> Serialize(Load(db, CHOOSE r \in found : TRUE)) ]
        IN  /\ ret' = [op |-> "get", table |-> rq[1], fhir_id |-> rq[2]] @@ response
            /\ ret' # ret
            /\ UNCHANGED <<obj, db>>

NextStore ==
    \/ Create
    \/ Delete
    \/ Get

SpecStore == InitStore /\ [][NextStore]_vars

(***************************************************************************)
(* Containment between stored resources.  A row of a DomainResource table  *)
(* carries the two columns of the `container` generic foreign key; here    *)
(* db holds rows [table, pk, container_type, container_id].                *)
(***************************************************************************)
MaxPerTable == 2

\* the resources the store starts with, none of them contained
Resources ==
    { [table |-> t, pk |-> n, container_type |-> None, container_id |-> None] :
        t \in {"Encounter", "Observation"}, n \in 1..MaxPerTable }

\* self.contained: GenericRelation('self', content_type_field='container_type',
\* object_id_field='container_id'), the rows of the instance's own table whose
\* container columns name the instance
contained(rows, self) ==
    Ordered({ x \in rows : /\ x.table = self.table
                           /\ x.container_type = Some(self.table)
                           /\ x.container_id = Some(self.pk) })

\* self.container: the row the two columns name, None when unset
container(rows, self) ==
    IF self.container_type = None \/ self.container_id = None THEN None
    ELSE IF \E x \in rows : x.table = self.container_type[1] /\ x.pk = self.container_id[1]
         THEN Some(<<self.container_type[1], self.container_id[1]>>)
         ELSE None

\* the instance of a row as clean() reads it
Instance(rows, self) ==
    [New(self.table) EXCEPT !.pk = Some(self.pk),
                            !.container = container(rows, self),
                            !.contained = contained(rows, self)]

InitContain ==
    /\ obj = None
    /\ ret = NoCall
    /\ db = Resources

\* resource.container = target (or None); resource.clean(); resource.save()
\* only when clean() did not raise
SetContainer ==
    \E r \in db : \E c \in {None} \cup {Some(x) : x \in db \ {r}} :
        LET row == [r EXCEPT !.container_type = IF c = None THEN None ELSE Some(c[1].table),
                             !.container_id = IF c = None THEN None ELSE Some(c[1].pk)]
            error == Clean(Instance(db, row))
        IN  /\ row # r
            /\ ret' = [op |-> "set_container", table |-> r.table, pk |-> r.pk, error |-> error]
            /\ db' = IF error = OK THEN (db \ {r}) \cup {row} ELSE db
            /\ UNCHANGED obj

NextContain ==
    \/ SetContainer

SpecContain == InitContain /\ [][NextContain]_vars

(***************************************************************************)
(* clean() as a function of the instance: the leaf resources with the      *)
(* fields the inherited rules and the Encounter rules read, as keyword     *)
(* arguments of the constructor or as loaded from their stored rows.       *)
(***************************************************************************)
\* Model(**kwargs), and Model.objects.get(pk=1) where pk is set; only a
\* stored instance has rows in `contained`
Inherited(kind) ==
    { e \in { [New(kind) EXCEPT !.pk = pk, !.fhir_id = id, !.implicitRules = rules,
                                !.meta = meta, !.container = c, !.contained = rows] :
                pk \in Opt({1}), id \in FhirIds, rules \in Urls,
                meta \in Opt(MetaElements), c \in DomainResourceFields.container,
                rows \in DomainResourceFields.contained } :
        e.pk = None => e.contained = <<>> }

Instances ==
    Inherited("Observation") \cup Inherited("Organization") \cup
    { [e EXCEPT !.status = s, !.plannedStartDate = start, !.plannedEndDate = end] :
        e \in Inherited("Encounter"), s \in {"planned", "completed"},
        start \in DateTimes, end \in DateTimes }

InitClean ==
    /\ obj \in Instances
    /\ ret = NoCall
    /\ db = {}

NextClean ==
    \/ Save
    \/ Validate

SpecClean == InitClean /\ [][NextClean]_vars

(***************************************************************************)
(* The rules of the specification, stated on the fields of the instance.   *)
(***************************************************************************)
Cleaned == ret.op = "clean"
Failed == Cleaned /\ ret.error # OK
Passed == Cleaned /\ ret.error = OK

\* how many fields of the group G (a set of names) are non-null on e
NonNull(e, G) == Cardinality({f \in G : e[f] # None})

ValueGroup ==
    { "valueQuantity", "valueCodeableConcept", "valueString", "valueBoolean", "valueInteger",
      "valueRange", "valuePeriod", "valueDateTime", "valueTime" }
EffectiveGroup == { "effectiveDateTime", "effectiveInstant", "effectivePeriod" }
DeceasedGroup == { "deceasedBoolean", "deceasedDateTime" }
MultipleBirthGroup == { "multipleBirthBoolean", "multipleBirthInteger" }
ExtensionValueGroup ==
    { "value_string", "value_boolean", "value_integer", "value_decimal", "value_datetime",
      "value_period" }
OtherPartyGroup == { "other_patient", "other_related_person" }

DomainResourceKinds == { "Observation", "Encounter", "Organization", "Patient", "Practitioner" }
ElementKinds == { "ObservationComponent", "EncounterParticipant" }

IsSet(x) == x # None /\ x[1] # ""

\* implicitRules requires the logical id
RuleResource(e) == IsSet(e.implicitRules) => IsSet(e.fhir_id)

ContainedNonEmpty(e) == e.contained # <<>>
MetaVersioned(e) ==
    e.meta # None /\ (IsSet(e.meta[1].versionId) \/ e.meta[1].lastUpdated # None)
MetaSecured(e) == e.meta # None /\ e.meta[1].security # <<>>

\* the three containment clauses
RuleContainment(e) ==
    e.container # None => ~ContainedNonEmpty(e) /\ ~MetaVersioned(e) /\ ~MetaSecured(e)

RuleInherited(e) == RuleResource(e) /\ RuleContainment(e)

\* an element with extensions has its fhir_id
RuleElement(e) == e.extension # <<>> => IsSet(e.fhir_id)

\* dataAbsentReason only without a value, on a persisted Observation
RuleDataAbsent(e) ==
    ~(e.pk # None /\ e.dataAbsentReason # None /\ NonNull(e, ValueGroup) > 0)

ContainmentErrors ==
    { "Contained resources cannot themselves contain other resources",
      "Contained resources cannot have meta.versionId or meta.lastUpdated",
      "Contained resources cannot have security labels" }
ElementError == "Element.fhir_id is required when element has children or extensions"
DateOrderError == "Encounter planned start date must be before or equal to planned end date"
PeriodRequiredError == "Completed or discharged encounters should have a period defined"
DataAbsentError == "dataAbsentReason shall only be present if there is no value[x]"

\* C1: for each choice group G of Observation (value[x], effective[x]),
\* ObservationComponent (value[x]), Patient (deceased[x], multipleBirth[x]) and
\* Practitioner (deceased[x]) and every instance that violates no other rule,
\* clean() fails if and only if more than one slot of G is non-null.
C1_ChoiceExclusivity ==
    Cleaned =>
        /\ obj.kind = "Observation" /\ RuleInherited(obj) /\ RuleDataAbsent(obj) =>
              /\ NonNull(obj, EffectiveGroup) <= 1 => (Failed <=> NonNull(obj, ValueGroup) > 1)
              /\ NonNull(obj, ValueGroup) <= 1 => (Failed <=> NonNull(obj, EffectiveGroup) > 1)
        /\ obj.kind = "ObservationComponent" /\ RuleElement(obj) =>
              (Failed <=> NonNull(obj, ValueGroup) > 1)
        /\ obj.kind = "Patient" /\ RuleInherited(obj) =>
              /\ NonNull(obj, MultipleBirthGroup) <= 1 =>
                    (Failed <=> NonNull(obj, DeceasedGroup) > 1)
              /\ NonNull(obj, DeceasedGroup) <= 1 =>
                    (Failed <=> NonNull(obj, MultipleBirthGroup) > 1)
        /\ obj.kind = "Practitioner" /\ RuleInherited(obj) =>
              (Failed <=> NonNull(obj, DeceasedGroup) > 1)

\* an Observation with two value[x] slots and nothing else wrong was rejected
C1_Witness ==
    /\ Failed
    /\ obj.kind = "Observation"
    /\ RuleInherited(obj) /\ RuleDataAbsent(obj)
    /\ NonNull(obj, EffectiveGroup) = 0
    /\ NonNull(obj, ValueGroup) = 2
    /\ obj.valueRange # None

\* C2: clean() of an Extension fails exactly when more than one of its six
\* value slots is non-null; an Extension without any value passes.
C2_ExtensionExclusivity ==
    Cleaned /\ obj.kind = "Extension" =>
        (Failed <=> NonNull(obj, ExtensionValueGroup) > 1)

\* an Extension holding False and 0, both non-null, was rejected
C2_Witness ==
    /\ Failed
    /\ obj.kind = "Extension"
    /\ obj.value_boolean = Some(FALSE)
    /\ obj.value_integer = Some(0)

\* C3: a DomainResource whose container is set fails clean() when its contained
\* set is non-empty, when its meta has versionId or lastUpdated set, or when its
\* meta has security labels; without a container none of the three clauses fails.
C3_Containment ==
    Cleaned /\ obj.kind \in DomainResourceKinds =>
        /\ (obj.container # None
              /\ (ContainedNonEmpty(obj) \/ MetaVersioned(obj) \/ MetaSecured(obj))) => Failed
        /\ (obj.container = None) => ret.error \notin ContainmentErrors

\* a contained resource whose only fault is a security label was rejected
C3_Witness ==
    /\ Failed
    /\ obj.kind \in DomainResourceKinds
    /\ obj.container # None
    /\ MetaSecured(obj) /\ ~MetaVersioned(obj) /\ ~ContainedNonEmpty(obj)

\* C4: an Element (EncounterParticipant, ObservationComponent) with at least
\* one attached extension fails clean() unless its fhir_id is set (non-empty);
\* with no extension and no fhir_id the rule never fails.
C4_ElementFhirId ==
    Cleaned /\ obj.kind \in ElementKinds =>
        /\ obj.extension # <<>> /\ ~IsSet(obj.fhir_id) => Failed
        /\ obj.extension = <<>> /\ obj.fhir_id = None => ret.error # ElementError

\* a sub-element with an extension and an empty fhir_id was rejected
C4_Witness ==
    /\ Failed
    /\ obj.kind \in ElementKinds
    /\ obj.extension # <<>>
    /\ obj.fhir_id = Some("")

\* what Encounter.clean checks besides the planned dates
RulePeriod(e) == e.status \in {"completed", "discharged"} => e.period # None

DatesSet(e) == e.plannedStartDate # None /\ e.plannedEndDate # None

\* C5: an Encounter with both planned dates set fails clean() if
\* plannedStartDate > plannedEndDate; with start <= end (equal dates included) or
\* with a date unset the date rule does not fail, and the Encounter passes when
\* it breaks no other rule.
C5_EncounterDateOrder ==
    Cleaned /\ obj.kind = "Encounter" =>
        /\ DatesSet(obj) /\ obj.plannedStartDate[1] > obj.plannedEndDate[1] => Failed
        /\ (~DatesSet(obj) \/ obj.plannedStartDate[1] <= obj.plannedEndDate[1]) =>
              /\ ret.error # DateOrderError
              /\ (RuleInherited(obj) /\ RulePeriod(obj)) => Passed

\* an Encounter planned from the 10th to the 5th was rejected
C5_Witness ==
    /\ Failed
    /\ obj.kind = "Encounter"
    /\ obj.plannedStartDate = Some(10)
    /\ obj.plannedEndDate = Some(5)

\* C6: an Encounter whose status is 'completed' or 'discharged' and whose
\* period is unset fails clean(); with any other status an unset period causes
\* no failure.
C6_EncounterPeriodRequired ==
    Cleaned /\ obj.kind = "Encounter" =>
        /\ obj.status \in {"completed", "discharged"} /\ obj.period = None => Failed
        /\ obj.status \notin {"completed", "discharged"} =>
              /\ ret.error # PeriodRequiredError
              /\ (obj.period = None /\ RuleInherited(obj)
                    /\ (DatesSet(obj) => obj.plannedStartDate[1] <= obj.plannedEndDate[1]))
                 => Passed

\* a discharged Encounter without period was rejected
C6_Witness ==
    /\ Failed
    /\ obj.kind = "Encounter"
    /\ obj.status = "discharged"
    /\ obj.period = None

\* C7: a persisted Observation with dataAbsentReason set and at least one
\* value[x] slot non-null fails clean(); with dataAbsentReason set and no
\* value[x] slot set the rule does not fail.
C7_DataAbsentReason ==
    Cleaned /\ obj.kind = "Observation" /\ obj.pk # None /\ obj.dataAbsentReason # None =>
        /\ NonNull(obj, ValueGroup) > 0 => Failed
        /\ NonNull(obj, ValueGroup) = 0 =>
              /\ ret.error # DataAbsentError
              /\ RuleInherited(obj) /\ NonNull(obj, EffectiveGroup) <= 1 => Passed

\* a persisted Observation with valueString and dataAbsentReason was rejected
C7_Witness ==
    /\ Failed
    /\ obj.kind = "Observation"
    /\ obj.pk # None
    /\ obj.dataAbsentReason # None
    /\ obj.valueString # None

\* a name with a character that is not a blank
HasName(e) == e.name # None /\ \E i \in DOMAIN e.name[1] : e.name[1][i] # " "

NoHomeTelecom(e) ==
    \A c \in DOMAIN e.contacts : \A t \in DOMAIN e.contacts[c] : e.contacts[c][t] # "home"

\* C8: a persisted Organization with no name (null, empty or blank) and no
\* linked Identifier fails clean(); with a non-blank name or one linked
\* Identifier, and no other rule broken, it passes.
C8_OrganizationIdentity ==
    Cleaned /\ obj.kind = "Organization" /\ obj.pk # None =>
        /\ ~HasName(obj) /\ obj.identifiers = <<>> => Failed
        /\ ((HasName(obj) \/ obj.identifiers # <<>>) /\ RuleInherited(obj)
              /\ NoHomeTelecom(obj)) => Passed

\* a persisted Organization without name passed because of its Identifier
C8_Witness ==
    /\ Passed
    /\ obj.kind = "Organization"
    /\ obj.pk # None
    /\ ~HasName(obj)
    /\ obj.identifiers # <<>>

\* C9: clean() of a PatientLink passes if and only if exactly one of
\* other_patient and the RelatedPerson target is set.
C9_PatientLinkCardinality ==
    Cleaned /\ obj.kind = "PatientLink" =>
        (Passed <=> NonNull(obj, OtherPartyGroup) = 1)

\* a PatientLink with both other parties was rejected
C9_Witness ==
    /\ Failed
    /\ obj.kind = "PatientLink"
    /\ NonNull(obj, OtherPartyGroup) = 2

(***************************************************************************)
(* The wire keys of the fields of Encounter and Observation (FHIR R5).     *)
(***************************************************************************)
EncounterWireKeys ==
    [ fhir_id |-> "id", priority |-> "priority", type |-> "type", subject |-> "subject",
      partOf |-> "partOf", serviceProvider |-> "serviceProvider",
      actualPeriod |-> "actualPeriod", plannedStartDate |-> "plannedStartDate",
      plannedEndDate |-> "plannedEndDate", length |-> "length", period |-> "period",
      note |-> "note", diagnoses |-> "diagnosis", locations |-> "location" ]

ObservationWireKeys ==
    [ fhir_id |-> "id", category |-> "category", subject |-> "subject",
      encounter |-> "encounter", issued |-> "issued", performer |-> "performer",
      dataAbsentReason |-> "dataAbsentReason", interpretation |-> "interpretation",
      bodySite |-> "bodySite", method |-> "method", specimen |-> "specimen",
      device |-> "device" ]

WireKeys(kind) == IF kind = "Encounter" THEN EncounterWireKeys ELSE ObservationWireKeys

\* a field holding a value (a non-empty one, for a string), a relation holding
\* a row
IsPopulated(e, f) ==
    /\ e[f] # None
    /\ (f = "fhir_id" \/ (f = "note" /\ e.kind = "Encounter")) => e[f][1] # ""

\* C10: the document of an Encounter or Observation that passes clean() has a
\* key for every populated field or non-empty relationship and no key for an
\* absent one; a populated period, note, length, partOf, serviceProvider,
\* device, specimen or performer produces its key.
C10_SerializedKeySet ==
    ret.op = "convert" /\ Clean(obj) = OK =>
        \A f \in DOMAIN WireKeys(obj.kind) :
            IsPopulated(obj, f) <=> WireKeys(obj.kind)[f] \in DOMAIN ret.doc

(***************************************************************************)
(* Choice slots on the wire.                                               *)
(***************************************************************************)
\* the keys of the group G present in the document d
KeysOf(d, G) == DOMAIN d \cap G

\* the slots of the group G that are non-null on e
SlotsOf(e, G) == {f \in G : e[f] # None}

\* C11: the document of an Observation with exactly one non-null value[x]
\* slot has exactly one value[x] key, the key of that slot, whatever the slot
\* and its value (valueRange, valueInteger 0, valueBoolean false, valueString
\* ''); likewise effective[x], and value[x] of each serialized component.
C11_ChoiceSerialization ==
    ret.op = "convert" /\ obj.kind = "Observation" =>
        /\ (NonNull(obj, ValueGroup) = 1 =>
                KeysOf(ret.doc, ValueGroup) = SlotsOf(obj, ValueGroup))
        /\ (NonNull(obj, EffectiveGroup) = 1 =>
                KeysOf(ret.doc, EffectiveGroup) = SlotsOf(obj, EffectiveGroup))
        /\ \A i \in DOMAIN obj.components :
               NonNull(obj.components[i], ValueGroup) = 1 =>
                   KeysOf(ret.doc.component[i], ValueGroup)
                       = SlotsOf(obj.components[i], ValueGroup)

(***************************************************************************)
(* The rules of a leaf resource together with the rules it inherits.       *)
(***************************************************************************)
LeafKinds == { "Encounter", "Observation", "Organization" }

\* the rules the leaf declares itself
RuleOwn(e) ==
    CASE e.kind = "Encounter" ->
           /\ RulePeriod(e)
           /\ DatesSet(e) => e.plannedStartDate[1] <= e.plannedEndDate[1]
      [] e.kind = "Observation" ->
           /\ NonNull(e, ValueGroup) <= 1
           /\ NonNull(e, EffectiveGroup) <= 1
           /\ RuleDataAbsent(e)
      [] e.kind = "Organization" ->
           /\ HasName(e) \/ (e.pk # None /\ e.identifiers # <<>>)
           /\ NoHomeTelecom(e)

\* C12: clean() of a leaf resource (Encounter, Observation, Organization)
\* fails whenever the instance breaks the Resource rule (implicitRules set
\* without fhir_id) or a containment clause of DomainResource, also when the
\* leaf's own rules are all satisfied.
C12_InvariantComposition ==
    Cleaned /\ obj.kind \in LeafKinds /\ ~RuleInherited(obj) => Failed

\* a leaf that satisfies its own rules was rejected for implicitRules
\* without fhir_id
C12_Witness ==
    /\ Failed
    /\ obj.kind \in LeafKinds
    /\ RuleOwn(obj)
    /\ ~RuleResource(obj)
    /\ RuleContainment(obj)

(***************************************************************************)
(* Persistence does not validate.                                          *)
(***************************************************************************)
\* the three invalid combinations the tests persist
InvalidCombination(e) ==
    \/ e.kind = "Encounter" /\ ~RulePeriod(e)
    \/ e.kind = "Organization" /\ ~HasName(e) /\ e.identifiers = <<>>
    \/ e.kind = "Observation" /\ e.dataAbsentReason # None /\ NonNull(e, ValueGroup) > 0

\* C13: an instance that is not yet stored can be saved whatever its field
\* values, in particular when clean() would reject it (a completed Encounter
\* without period, an Organization without name and identifier, an
\* Observation with a value and a dataAbsentReason).
C13_SaveNeverValidates ==
    obj.pk = None => ENABLED Save

\* a stored instance with one of the invalid combinations, reported only by
\* the explicit clean() that followed
C13_Witness ==
    /\ obj.pk # None
    /\ InvalidCombination(obj)
    /\ Failed

(***************************************************************************)
(* Modifier extensions of backbone elements.                               *)
(***************************************************************************)
ModifierExtensionPresent(e) == e.modifierExtension # None /\ e.modifierExtension[1] # <<>>

\* C15: a backbone element (EncounterParticipant, ObservationComponent) that
\* carries a modifier extension fails clean() unless its fhir_id is set.
C15_ModifierExtensionRequiresId ==
    Cleaned /\ obj.kind \in ElementKinds /\ ModifierExtensionPresent(obj)
            /\ ~IsSet(obj.fhir_id)
        => Failed

(***************************************************************************)
(* References on the wire.                                                 *)
(***************************************************************************)
\* the JSON object {"reference": target}
ReferenceTo(target) == [reference |-> target]

\* the string "<Type>/<id>" of a present logical id, as its two parts
TypedId(type, id) == << type, Some(id) >>

\* lists of reference objects
ReferenceLists == Seq({ReferenceTo(t[1]) : t \in FK("Condition/cond-1") \ {None}})

\* C19: every reference the documents of Encounter and Observation carry
\* (subject, participant.actor, diagnosis.condition, admission.origin and
\* destination, location.location, Observation.encounter) is the one-field
\* object {reference: "<Type>/<id>"} of its target: not a list, and not built
\* from an absent logical id.
C19_ReferenceSerialization ==
    ret.op = "convert" =>
        /\ "subject" \in DOMAIN ret.doc => ret.doc.subject = ReferenceTo(obj.subject[1])
        /\ obj.kind = "Observation" /\ "encounter" \in DOMAIN ret.doc =>
               /\ DOMAIN ret.doc.encounter = {"reference"}
               /\ ret.doc.encounter.reference[2] # None
               /\ ret.doc.encounter.reference
                      = TypedId("Encounter/", obj.encounter[1].fhir_id[1])
        /\ obj.kind = "Encounter" =>
               /\ "participant" \in DOMAIN ret.doc =>
                      \A i \in DOMAIN ret.doc.participant :
                          "actor" \in DOMAIN ret.doc.participant[i] =>
                              DOMAIN ret.doc.participant[i].actor = {"reference"}
               /\ "diagnosis" \in DOMAIN ret.doc =>
                      \A i \in DOMAIN ret.doc.diagnosis :
                          ret.doc.diagnosis[i].condition \notin ReferenceLists
               /\ "admission" \in DOMAIN ret.doc =>
                      \A k \in {"origin", "destination"} \cap DOMAIN ret.doc.admission :
                          ret.doc.admission[k] = ReferenceTo(obj.admission[1][k][1])
               /\ "location" \in DOMAIN ret.doc =>
                      \A i \in DOMAIN ret.doc.location :
                          ret.doc.location[i].location
                              = ReferenceTo(obj.locations[i].location[1])

(***************************************************************************)
(* Multi-valued relationships on the wire.                                 *)
(***************************************************************************)
\* relationship of the model |-> its key in the document
EncounterListKeys ==
    [ type |-> "type", participants |-> "participant", diagnoses |-> "diagnosis",
      locations |-> "location" ]

ObservationListKeys ==
    [ category |-> "category", interpretation |-> "interpretation",
      reference_ranges |-> "referenceRange", components |-> "component" ]

ListKeys(kind) == IF kind = "Encounter" THEN EncounterListKeys ELSE ObservationListKeys

\* C20 as stated: each multi-valued relationship the serializer handles is
\* emitted as a list with exactly one entry per related record, and its key
\* is omitted if and only if there is no related record.
C20_OneEntryPerRecord ==
    ret.op = "convert" =>
        \A f \in DOMAIN ListKeys(obj.kind) :
            LET key == ListKeys(obj.kind)[f]
            IN  /\ key \in DOMAIN ret.doc <=> obj[f] # <<>>
                /\ key \in DOMAIN ret.doc => Len(ret.doc[key]) = Len(obj[f])

\* a related record with nothing to emit: a participant without type, period
\* and actor, a reference range without low, high, type, normalValue and text
HasContentParticipant(p) == p.type # <<>> \/ p.period # None \/ p.actor # None

HasContentReferenceRange(rr) ==
    \/ rr.low # None \/ rr.high # None \/ rr.type # None \/ rr.normalValue # None
    \/ (rr.text # None /\ rr.text[1] # "")

\* the related records of the relationship f that have something to emit
Kept(e, f) ==
    CASE f = "participants"     -> SelectSeq(e[f], HasContentParticipant)
      [] f = "reference_ranges" -> SelectSeq(e[f], HasContentReferenceRange)
      [] OTHER                  -> e[f]

\* the entry d is the wire form of the related record r of relationship f
EntryOf(f, d, r) ==
    CASE f \in {"type", "category", "interpretation"} -> d.text = r
      [] f = "participants" ->
             "actor" \in DOMAIN d <=> r.actor # None
      [] f = "reference_ranges" ->
             /\ "low" \in DOMAIN d <=> r.low # None
             /\ "text" \in DOMAIN d <=> r.text # None
      [] f = "components" ->
             "valueString" \in DOMAIN d <=> r.valueString # None
      [] f = "locations" -> d.location.reference = r.location[1]
      [] f = "diagnoses" -> d.condition[1].reference = r.condition[1]

\* C20: each multi-valued relationship the serializer handles is emitted as a
\* list with exactly one entry per related record that has something to emit,
\* in query order, and its key is omitted if and only if there is no such
\* record; an empty list is never emitted.
C20_OneEntryPerKeptRecord ==
    ret.op = "convert" =>
        \A f \in DOMAIN ListKeys(obj.kind) :
            LET key == ListKeys(obj.kind)[f]
                kept == Kept(obj, f)
            IN  /\ key \in DOMAIN ret.doc <=> kept # <<>>
                /\ key \in DOMAIN ret.doc =>
                       /\ Len(ret.doc[key]) = Len(kept)
                       /\ \A i \in DOMAIN kept : EntryOf(f, ret.doc[key][i], kept[i])

\* an Encounter with a bare participant before one with an actor was
\* serialized with the single entry of the second
C20_Witness ==
    /\ ret.op = "convert"
    /\ obj.kind = "Encounter"
    /\ Len(obj.participants) = 2
    /\ ~HasContentParticipant(obj.participants[1])
    /\ Len(ret.doc.participant) = 1

(***************************************************************************)
(* The read endpoint.                                                      *)
(***************************************************************************)
\* the stored records of type R whose logical id is x
Matching(rows, R, x) == {r \in rows : r.table = R /\ r.fhir_id = Some(x)}

\* C14: GET /fhir/R/x/ answers with the serialization of one record of type
\* R whose logical id is x whenever at least one such record is stored, also
\* when several records share x, and answers not-found exactly when there is
\* none.
C14_ReadById ==
    ret.op = "get" =>
        /\ Matching(db, ret.table, ret.fhir_id) # {} =>
               /\ ret.status = 200
               /\ ret.doc.resourceType = ret.table
               /\ ret.doc.id = ret.fhir_id
        /\ ret.status = 404 <=> Matching(db, ret.table, ret.fhir_id) = {}

(***************************************************************************)
(* Deletion: owned sub-elements and merely referenced rows.                *)
(***************************************************************************)
\* the columns through which a sub-element belongs to its owner
OwnerFields ==
    [ EncounterParticipant      |-> {"encounter"},
      EncounterReason           |-> {"encounter"},
      EncounterDiagnosis        |-> {"encounter"},
      EncounterAdmission        |-> {"encounter"},
      EncounterLocation         |-> {"encounter"},
      ObservationComponent      |-> {"observation"},
      ObservationReferenceRange |-> {"observation", "component"},
      ObservationTriggeredBy    |-> {"observation"},
      OrganizationQualification |-> {"organization"},
      RelatedPerson             |-> {"patient"} ]

SubElementTables == DOMAIN OwnerFields

\* r is a sub-element of o
Owns(o, r) ==
    /\ r.table \in SubElementTables
    /\ \E f \in OwnerFields[r.table] : PointsTo(r, f, o)

\* the sub-elements of o and the sub-elements of these
OwnedBy(rows, o) ==
    {r \in rows : Owns(o, r) \/ \E m \in rows : Owns(o, m) /\ Owns(m, r)}

\* this step deletes the row o
Deleting(o) ==
    /\ ret'.op = "delete"
    /\ ret' # ret
    /\ ret'.table = o.table
    /\ ret'.pk = o.pk

\* the row r is still stored after the step
Survives(r) == \E x \in db' : x.table = r.table /\ x.pk = r.pk

\* C16: deleting an Encounter, an Observation or a Patient deletes every
\* sub-element it owns (participants, reasons, diagnoses, locations, admission;
\* components, reference ranges, triggered-by records; related persons), and
\* leaves the sub-elements owned by other resources unchanged.
C16_CascadeOwned ==
    [][ \A o \in db :
            Deleting(o) /\ o.table \in {"Encounter", "Observation", "Patient"} =>
                /\ \A r \in OwnedBy(db, o) : ~Survives(r)
                /\ \A r \in db :
                       r.table \in SubElementTables /\ r \notin OwnedBy(db, o) => r \in db'
      ]_vars

\* C17: deleting a row never deletes a row that merely references it (through
\* a column that is not its link to its owner): the referring row survives
\* with that column null.  This holds for every reference column, among them
\* Encounter.class_field, Observation.code, EncounterDiagnosis.condition,
\* EncounterLocation.location and ObservationTriggeredBy.triggering_observation.
C17_DetachOnDelete ==
    [][ \A t \in db :
            Deleting(t) =>
                \A r \in db \ ({t} \cup OwnedBy(db, t)) :
                    \A f \in DOMAIN r.refs :
                        PointsTo(r, f, t) =>
                            \E x \in db' :
                                /\ x.table = r.table
                                /\ x.pk = r.pk
                                /\ x.refs[f] = None
      ]_vars

(***************************************************************************)
(* clean() and the convert functions only read.                            *)
(***************************************************************************)
\* C18: a call of clean() or of a convert function leaves every field of the
\* instance, its related rows and the database as they were, whether the call
\* returns or raises.
C18_SideEffectFree ==
    [][ ret'.op \in {"clean", "convert"} /\ ret' # ret => obj' = obj /\ db' = db ]_vars

\* clean() raised on a stored Encounter that has participants
C18_Witness ==
    /\ Failed
    /\ obj.kind = "Encounter"
    /\ obj.pk # None
    /\ obj.participants # <<>>

(***************************************************************************)
(* The home-contact rule of Organization.                                  *)
(***************************************************************************)
HomeUseError == "Organization contact telecom cannot have 'home' use"

\* C21: clean() of an Organization that has a contact with a telecom entry
\* of use 'home' fails; clean() of an Organization none of whose contact
\* telecom entries has use 'home' never reports the home-use error.
C21_HomeContact ==
    Cleaned /\ obj.kind = "Organization" =>
        /\ ~NoHomeTelecom(obj) => Failed
        /\ NoHomeTelecom(obj) => ret.error # HomeUseError

\* a named Organization was rejected for the 'home' telecom that follows a
\* 'mobile' one in the same contact
C21_Witness ==
    /\ Failed
    /\ obj.kind = "Organization"
    /\ HasName(obj)
    /\ ~NoHomeTelecom(obj)
    /\ ret.error = HomeUseError

(***************************************************************************)
(* The versionAlgorithm[x] choice of CanonicalResource.                    *)
(***************************************************************************)
VersionAlgorithmGroup == { "versionAlgorithmString", "versionAlgorithmCoding" }

VersionAlgorithmError == "Only one versionAlgorithm[x] field can be set"

\* C22: clean() of a CanonicalResource fails whenever versionAlgorithmString
\* and versionAlgorithmCoding are both non-null, the empty string included,
\* and does not report the versionAlgorithm[x] error when at most one of
\* them is non-null.
C22_VersionAlgorithmExclusive ==
    Cleaned /\ obj.kind = "CanonicalResource" =>
        /\ NonNull(obj, VersionAlgorithmGroup) > 1 => Failed
        /\ NonNull(obj, VersionAlgorithmGroup) <= 1 => ret.error # VersionAlgorithmError

(***************************************************************************)
(* The status code of Encounter.                                           *)
(***************************************************************************)
\* the `choices` of Encounter.status
STATUS_CHOICES ==
    { "planned", "in-progress", "on-hold", "discharged", "completed",
      "cancelled", "discontinued", "entered-in-error", "unknown" }

\* C23: an Encounter that passes clean() has a status among the nine codes
\* of the choices; an Encounter with any other status, or with none, is
\* rejected.
C23_StatusEnumerated ==
    Cleaned /\ obj.kind = "Encounter" =>
        /\ Passed => obj.status \in STATUS_CHOICES
        /\ obj.status \notin STATUS_CHOICES => Failed

(***************************************************************************)
(* Containment nesting.                                                    *)
(***************************************************************************)
\* the stored resource r is the container of the stored resource x
Contains(r, x) == x.container_type = Some(r.table) /\ x.container_id = Some(r.pk)

\* C24: in every state reached by set-container operations that persist a
\* resource only when its clean() passes, no stored resource that has a
\* container is itself the container of another resource.
C24_NestingDepth ==
    \A r \in db : r.container_id # None => ~\E x \in db : Contains(r, x)

(***************************************************************************)
(* The order of the containment clauses.                                   *)
(***************************************************************************)
ContainedError == "Contained resources cannot themselves contain other resources"
MetaVersionError == "Contained resources cannot have meta.versionId or meta.lastUpdated"
SecurityError == "Contained resources cannot have security labels"

\* C25: clean() of a contained resource that breaks several containment
\* clauses reports one error, that of the first clause broken in the order
\* (a) non-empty contained set, (b) meta.versionId or meta.lastUpdated,
\* (c) security labels; the three errors are pairwise distinct.
C25_FirstFailureOrder ==
    /\ Cardinality({ContainedError, MetaVersionError, SecurityError}) = 3
    /\ Cleaned /\ obj.kind \in DomainResourceKinds /\ RuleResource(obj)
         /\ obj.container # None =>
           /\ ContainedNonEmpty(obj) => ret.error = ContainedError
           /\ ~ContainedNonEmpty(obj) /\ MetaVersioned(obj) => ret.error = MetaVersionError
           /\ ~ContainedNonEmpty(obj) /\ ~MetaVersioned(obj) /\ MetaSecured(obj) =>
                 ret.error = SecurityError

\* a contained resource that broke all three clauses was rejected for its
\* contained set
C25_Witness ==
    /\ Failed
    /\ obj.kind \in DomainResourceKinds
    /\ obj.container # None
    /\ ContainedNonEmpty(obj) /\ MetaVersioned(obj) /\ MetaSecured(obj)
    /\ ret.error = ContainedError

(***************************************************************************)
(* The order of the rules along the class hierarchy.                       *)
(***************************************************************************)
ResourceError == "Resource.fhir_id is required when resource has implicit rules"

DateOrderBroken(e) == DatesSet(e) /\ e.plannedStartDate[1] > e.plannedEndDate[1]

\* C26 as stated: the rules of the most-derived class are evaluated first,
\* so clean() of an Encounter that breaks its date-order rule and an
\* inherited Resource or DomainResource rule reports the date-order error.
C26_DerivedFirst ==
    Cleaned /\ obj.kind = "Encounter" /\ DateOrderBroken(obj) /\ ~RuleInherited(obj) =>
        ret.error = DateOrderError

\* C26 amended: the inherited rules are evaluated first.  clean() of an
\* Encounter reports the Resource error whenever the Resource rule is broken,
\* else a containment error whenever a containment clause is broken, and an
\* error of Encounter's own rules only when every inherited rule holds.
C26_BaseFirst ==
    Cleaned /\ obj.kind = "Encounter" =>
        /\ ~RuleResource(obj) => ret.error = ResourceError
        /\ RuleResource(obj) /\ ~RuleContainment(obj) => ret.error \in ContainmentErrors
        /\ ret.error \in {DateOrderError, PeriodRequiredError} => RuleInherited(obj)
        /\ RuleInherited(obj) /\ DateOrderBroken(obj) => ret.error = DateOrderError

\* an Encounter planned from the 10th to the 5th, with implicitRules and no
\* fhir_id, was rejected with the Resource error
C26_Witness ==
    /\ Failed
    /\ obj.kind = "Encounter"
    /\ DateOrderBroken(obj)
    /\ ~RuleResource(obj)
    /\ ret.error = ResourceError

(***************************************************************************)
(* The dataAbsentReason rule before and after the first save.              *)
(***************************************************************************)
\* exactly one value[x] slot and dataAbsentReason, no other rule broken
ValueAndAbsentReason(e) ==
    /\ e.kind = "Observation"
    /\ NonNull(e, ValueGroup) = 1
    /\ e.dataAbsentReason # None
    /\ NonNull(e, EffectiveGroup) <= 1
    /\ RuleInherited(e)

\* C27: an Observation with exactly one value[x] slot set and dataAbsentReason
\* set passes clean() while it is not persisted, and fails clean() with the
\* dataAbsentReason error once it is persisted, its fields being the same.
C27_DeferredDataAbsent ==
    Cleaned /\ ValueAndAbsentReason(obj) =>
        /\ obj.pk = None => Passed
        /\ obj.pk # None => ret.error = DataAbsentError

\* an unsaved Observation with one value and dataAbsentReason passed
C27_Witness ==
    /\ Passed
    /\ ValueAndAbsentReason(obj)
    /\ obj.pk = None

(***************************************************************************)
(* Branch priority of the serializer.                                      *)
(***************************************************************************)
ValueOrder ==
    << "valueQuantity", "valueCodeableConcept", "valueString", "valueBoolean",
       "valueInteger", "valuePeriod", "valueDateTime", "valueTime" >>

EffectiveOrder == << "effectiveDateTime", "effectiveInstant", "effectivePeriod" >>

\* the slot holds something to emit: a value, and for valueString a
\* non-empty one
Holds(e, f) == e[f] # None /\ (f = "valueString" => e[f][1] # "")

\* the first slot of the order that holds something, as a set of keys
FirstPopulated(e, order) ==
    LET held == {i \in DOMAIN order : Holds(e, order[i])}
    IN  IF held = {} THEN {}
        ELSE {order[CHOOSE i \in held : \A j \in held : i <= j]}

C29_ChannelsDistinct ==
    [][(obj.kind \in LeafKinds /\ obj'.kind = obj.kind /\ obj'.extension # obj.extension)
          => modifierExtension(obj') = modifierExtension(obj)]_vars

(***************************************************************************)
(* Resources are not Elements.                                             *)
(***************************************************************************)
\* a stored resource with extensions attached and no logical id
ExtendedWithoutId(e) ==
    /\ e.kind \in LeafKinds
    /\ e.pk # None
    /\ e.extension # <<>>
    /\ ~IsSet(e.fhir_id)

\* C30: a persisted Encounter, Observation or Organization with extensions
\* attached and no fhir_id passes clean() whenever its other rules hold; the
\* error of the Element rule is never reported for a resource.
C30_ResourceNotElement ==
    Cleaned /\ obj.kind \in LeafKinds =>
        /\ ret.error # ElementError
        /\ ExtendedWithoutId(obj) /\ RuleInherited(obj) /\ RuleOwn(obj) => Passed

\* a stored resource with an extension and no fhir_id passed
C30_Witness ==
    /\ Passed
    /\ ExtendedWithoutId(obj)

====
